---- MODULE Spec2Model ----
(***************************************************************************)
(* Fixed-depth binary Merkle tree persisted in a content-addressed         *)
(* key-value store (src/src/merkle_tree.ts).  The source file holds two    *)
(* definitions of class MerkleTree: lines 13-179 (impl = 1) and lines      *)
(* 193-371 (impl = 2).  Both are modelled; impl selects the one in use.    *)
(*                                                                         *)
(* Representation of bytes.  A 32-byte block of one repeated byte is the   *)
(* 1-tuple <<"00">>, <<"01">>.  A sha256 digest is the 3-tuple             *)
(* <<"sha256", c1, c2>> of the two 32-byte blocks that were hashed, so the *)
(* hash is injective (no collisions) and a digest differs from every raw   *)
(* block.  A buffer of 32*n bytes is the n-tuple of its blocks; the 4-byte *)
(* little-endian depth is a 4-tuple of byte values.                        *)
(***************************************************************************)
EXTENDS Integers, Sequences, FiniteSets, TLC

VARIABLES impl, db, tree, written, held, op, nUpdates,
          pending, procs, faulted, heap, rootBuf, kept

\* The state of the specifications other than Spec: the puts issued and not
\* yet committed, the calls in progress, whether a store fault has happened, and the buffer
\* objects behind this.root and behind the root a caller keeps.
auxVars == <<pending, procs, faulted, heap, rootBuf, kept>>

vars == <<impl, db, tree, written, held, op, nUpdates,
          pending, procs, faulted, heap, rootBuf, kept>>

(* ------------------------------ bounds --------------------------------- *)

\* Largest tree depth that is constructed.
MaxDepth == 2

\* Largest number of updateElement calls in one behaviour.
MaxUpdates == 2

(* ------------------------- program constants --------------------------- *)

MAX_DEPTH == 32

\* Buffer.alloc(32): the initial value of the field `root`.
Zero32 == <<"00">>

One32 == <<"01">>

\* Buffer.alloc(64, 0): the default leaf value.
Zero64 == <<Zero32, Zero32>>

\* 64 bytes of 0x01.
One64 == <<One32, One32>>

\* Buffer.from(name) / this.name: the key of the metadata record.
Name == <<"tree">>

\* The result of a get that misses.
NotFound == <<>>

(* ------------------------------ hasher --------------------------------- *)

\* sha256 of a buffer.
Hash(buf) == <<"sha256">> \o buf

\* hash(left || right).
Compress(left, right) == Hash(<<left, right>>)

(* --------------------------- byte encodings ---------------------------- *)

\* buf.writeUInt32LE(n, 32): the four bytes of n, least significant first.
WriteUInt32LE(n) ==
  << n % 256, (n \div 256) % 256, (n \div 65536) % 256, (n \div 16777216) % 256 >>

\* buf.readUInt32LE(offset), the depth field following the 32-byte root.
ReadUInt32LE(buf, offset) ==
  LET b == buf[(offset \div 32) + 1]
  IN  b[1] + 256 * b[2] + 65536 * b[3] + 16777216 * b[4]

\* buf.slice(start, end) for the 32-byte aligned slices (0,32) and (32,64).
Slice(buf, start, end) == buf[(start \div 32) + 1]

\* Mutant: the two halves are stored in the wrong order.
Concat_Swapped(a, b) == <<b, a>>

\* Buffer.concat([a, b]) of two 32-byte buffers.
Concat(a, b) == <<a, b>>

(* ------------------------------- store --------------------------------- *)

\* db.get(key): the stored value, or a miss.
Get(store, key) == IF key \in DOMAIN store THEN store[key] ELSE NotFound

\* db.put(key, value).
Put(store, key, value) ==
  [k \in (DOMAIN store) \cup {key} |-> IF k = key THEN value ELSE store[k]]

GetEntry(store, key) == [kind |-> "get", key |-> key, value |-> Get(store, key)]

PutEntry(key, value) == [kind |-> "put", key |-> key, value |-> value]

\* The store after the puts of a trace have committed, in the order issued.
RECURSIVE Commit(_, _)
Commit(store, trace) ==
  IF trace = <<>> THEN store
  ELSE LET e == Head(trace)
       IN  Commit(IF e.kind = "put" THEN Put(store, e.key, e.value) ELSE store,
                  Tail(trace))

(* --------------------------- the tree object --------------------------- *)

\* No instance: the value of `tree` before MerkleTree.new returns one, and
\* after a construction that throws.
NoTree == [live |-> FALSE, root |-> Zero32, depth |-> 0]

Tree(root, depth) == [live |-> TRUE, root |-> root, depth |-> depth]

\* Mutant: the lower bound of the check is 0.
BadDepth_ZeroAllowed(depth) == ~(depth >= 0 /\ depth <= MAX_DEPTH)

\* The depth check of the constructor (both definitions).
BadDepth(depth) == ~(depth >= 1 /\ depth <= MAX_DEPTH)

\* writeMetaData(): the put of the 40-byte record root || depth (LE).
writeMetaData(root, depth) == PutEntry(Name, <<root, WriteUInt32LE(depth)>>)

\* hashPerLevel[i] / nodes[i]: the digest of every node of level i of the
\* all-zero tree of the given depth, computed from the leaf level upwards.
RECURSIVE hashPerLevel(_, _)
hashPerLevel(depth, i) ==
  IF depth = i
  THEN Hash(Zero64)
  ELSE Compress(hashPerLevel(depth, i + 1), hashPerLevel(depth, i + 1))

\* Mutant: the loop stops at i > 0 and never stores the root's entry.
InitPuts_SkipRoot(depth) ==
  [k \in 1..(depth - 1) |->
     PutEntry(hashPerLevel(depth, depth - k),
              Concat(hashPerLevel(depth, depth - k + 1),
                     hashPerLevel(depth, depth - k + 1)))]

\* The loop of the fresh branch: one put per internal level, i = depth-1 .. 0.
InitPuts(depth) ==
  [k \in 1..depth |->
     PutEntry(hashPerLevel(depth, depth - k),
              Concat(hashPerLevel(depth, depth - k + 1),
                     hashPerLevel(depth, depth - k + 1)))]

\* constructor, first definition.  hasRoot: a root was passed (restoration).
Constructor1(depth, hasRoot, root) ==
  IF BadDepth(depth)
  THEN [ok |-> FALSE, tree |-> NoTree, trace |-> <<>>]
  ELSE IF hasRoot
  THEN [ok |-> TRUE, tree |-> Tree(root, depth), trace |-> <<>>]
  ELSE [ok |-> TRUE, tree |-> Tree(hashPerLevel(depth, 0), depth),
        trace |-> InitPuts(depth)]

\* constructor, second definition: the fresh branch calls writeMetaData()
\* before it assigns this.root, so the record carries the field initializer.
Constructor2(depth, hasRoot, root) ==
  IF BadDepth(depth)
  THEN [ok |-> FALSE, tree |-> NoTree, trace |-> <<>>]
  ELSE IF hasRoot
  THEN [ok |-> TRUE, tree |-> Tree(root, depth), trace |-> <<>>]
  ELSE [ok |-> TRUE, tree |-> Tree(hashPerLevel(depth, 0), depth),
        trace |-> Append(InitPuts(depth), writeMetaData(Zero32, depth))]

Constructor(i, depth, hasRoot, root) ==
  IF i = 1 THEN Constructor1(depth, hasRoot, root)
           ELSE Constructor2(depth, hasRoot, root)

\* Mutant: restoration takes the depth from the caller's argument instead of
\* the metadata record.
New_ArgDepth(i, store, depthArg) ==
  LET meta == Get(store, Name)
      read == << GetEntry(store, Name) >>
  IN  IF meta # NotFound
      THEN LET root  == Slice(meta, 0, 32)
               c     == Constructor(i, depthArg, TRUE, root)
           IN  [ok |-> c.ok, tree |-> c.tree, restored |-> TRUE,
                trace |-> read \o c.trace]
      ELSE LET c == Constructor(i, depthArg, FALSE, Zero32)
           IN  IF c.ok
               THEN [ok |-> TRUE, tree |-> c.tree, restored |-> FALSE,
                     trace |-> read \o c.trace
                               \o << writeMetaData(c.tree.root, c.tree.depth) >>]
               ELSE [ok |-> FALSE, tree |-> NoTree, restored |-> FALSE,
                     trace |-> read]

\* Mutant: the restoration branch writes the metadata record again.
New_RestoreWritesMeta(i, store, depthArg) ==
  LET meta == Get(store, Name)
      read == << GetEntry(store, Name) >>
  IN  IF meta # NotFound
      THEN LET root  == Slice(meta, 0, 32)
               depth == ReadUInt32LE(meta, 32)
               c     == Constructor(i, depth, TRUE, root)
           IN  [ok |-> c.ok, tree |-> c.tree, restored |-> TRUE,
                trace |-> read \o c.trace
                          \o << writeMetaData(c.tree.root, c.tree.depth) >>]
      ELSE LET c == Constructor(i, depthArg, FALSE, Zero32)
           IN  IF c.ok
               THEN [ok |-> TRUE, tree |-> c.tree, restored |-> FALSE,
                     trace |-> read \o c.trace
                               \o << writeMetaData(c.tree.root, c.tree.depth) >>]
               ELSE [ok |-> FALSE, tree |-> NoTree, restored |-> FALSE,
                     trace |-> read]

\* static async new(db, name, depth): restore from the metadata record when
\* there is one, else construct a fresh tree and write its metadata.
New(i, store, depthArg) ==
  LET meta == Get(store, Name)
      read == << GetEntry(store, Name) >>
  IN  IF meta # NotFound
      THEN LET root  == Slice(meta, 0, 32)
               depth == ReadUInt32LE(meta, 32)
               c     == Constructor(i, depth, TRUE, root)
           IN  [ok |-> c.ok, tree |-> c.tree, restored |-> TRUE,
                trace |-> read \o c.trace]
      ELSE LET c == Constructor(i, depthArg, FALSE, Zero32)
           IN  IF c.ok
               THEN [ok |-> TRUE, tree |-> c.tree, restored |-> FALSE,
                     trace |-> read \o c.trace
                               \o << writeMetaData(c.tree.root, c.tree.depth) >>]
               ELSE [ok |-> FALSE, tree |-> NoTree, restored |-> FALSE,
                     trace |-> read]

(* ------------------------------ traversal ------------------------------ *)

\* Mutant: the shift ignores the tree depth, so the least significant bit
\* selects the split under the root.
shouldGoRight_LsbFirst(index, treeDepth, depth) ==
  (index \div (2 ^ depth)) % 2

\* (index >> (this.depth - depth - 1)) & 1: 1 if right, 0 if left.
shouldGoRight(index, treeDepth, depth) ==
  (index \div (2 ^ (treeDepth - depth - 1))) % 2

\* isLeaf(index) of the second definition.
isLeaf(treeDepth, index) == treeDepth = index

Failed(trace) == [ok |-> FALSE, path |-> <<>>, hash |-> Zero32, trace |-> trace]

\* getHashPath, first definition: the level above the leaves ends the descent.
RECURSIVE getHashPathRecursively(_, _, _, _, _)
getHashPathRecursively(store, index, treeDepth, current, depth) ==
  LET read   == << GetEntry(store, current) >>
      fromDb == Get(store, current)
  IN  IF fromDb = NotFound
      THEN Failed(read)
      ELSE LET leftHash  == Slice(fromDb, 0, 32)
               rightHash == Slice(fromDb, 32, 64)
           IN  IF treeDepth = depth + 1
               THEN [ok |-> TRUE, path |-> << <<leftHash, rightHash>> >>,
                     hash |-> Zero32, trace |-> read]
               ELSE LET accPath ==
                          getHashPathRecursively(store, index, treeDepth,
                            IF shouldGoRight(index, treeDepth, depth) = 1
                            THEN rightHash ELSE leftHash,
                            depth + 1)
                    IN  IF ~accPath.ok
                        THEN Failed(read \o accPath.trace)
                        ELSE [ok |-> TRUE,
                              path |-> Append(accPath.path, <<leftHash, rightHash>>),
                              hash |-> Zero32,
                              trace |-> read \o accPath.trace]

\* Mutant: each pair is put in front of the pairs of the deeper levels, so
\* the path is ordered root-to-leaf.
RECURSIVE getHashPathRecursive_Unshift(_, _, _, _, _)
getHashPathRecursive_Unshift(store, index, treeDepth, current, depth) ==
  IF isLeaf(treeDepth, depth)
  THEN [ok |-> TRUE, path |-> <<>>, hash |-> Zero32, trace |-> <<>>]
  ELSE LET read   == << GetEntry(store, current) >>
           parent == Get(store, current)
       IN  IF parent = NotFound
           THEN Failed(read)
           ELSE LET left  == Slice(parent, 0, 32)
                    right == Slice(parent, 32, 64)
                    sub   == getHashPathRecursive_Unshift(store, index, treeDepth,
                               IF shouldGoRight(index, treeDepth, depth) = 1
                               THEN right ELSE left,
                               depth + 1)
                IN  IF ~sub.ok
                    THEN Failed(read \o sub.trace)
                    ELSE [ok |-> TRUE,
                          path |-> << <<left, right>> >> \o sub.path,
                          hash |-> Zero32,
                          trace |-> read \o sub.trace]

\* getHashPath, second definition: the leaf level returns without a read.
RECURSIVE getHashPathRecursive(_, _, _, _, _)
getHashPathRecursive(store, index, treeDepth, current, depth) ==
  IF isLeaf(treeDepth, depth)
  THEN [ok |-> TRUE, path |-> <<>>, hash |-> Zero32, trace |-> <<>>]
  ELSE LET read   == << GetEntry(store, current) >>
           parent == Get(store, current)
       IN  IF parent = NotFound
           THEN Failed(read)
           ELSE LET left  == Slice(parent, 0, 32)
                    right == Slice(parent, 32, 64)
                    sub   == getHashPathRecursive(store, index, treeDepth,
                               IF shouldGoRight(index, treeDepth, depth) = 1
                               THEN right ELSE left,
                               depth + 1)
                IN  IF ~sub.ok
                    THEN Failed(read \o sub.trace)
                    ELSE [ok |-> TRUE,
                          path |-> Append(sub.path, <<left, right>>),
                          hash |-> Zero32,
                          trace |-> read \o sub.trace]

\* getHashPath(index) on an instance t over the store.
getHashPath(i, store, t, index) ==
  IF i = 1 THEN getHashPathRecursively(store, index, t.depth, t.root, 0)
           ELSE getHashPathRecursive(store, index, t.depth, t.root, 0)

(* ------------------------------- update -------------------------------- *)

\* Mutant: the new children are stored under the key that was read, so the
\* old node is overwritten in place.
RECURSIVE updateRecursively_InPlace(_, _, _, _, _, _)
updateRecursively_InPlace(store, index, value, treeDepth, current, depth) ==
  IF treeDepth = depth
  THEN [ok |-> TRUE, path |-> <<>>, hash |-> Hash(value), trace |-> <<>>]
  ELSE LET read   == << GetEntry(store, current) >>
           fromDb == Get(store, current)
       IN  IF fromDb = NotFound
           THEN Failed(read)
           ELSE LET goRight == shouldGoRight(index, treeDepth, depth) = 1
                    sub == updateRecursively_InPlace(store, index, value, treeDepth,
                             IF goRight THEN Slice(fromDb, 32, 64)
                                        ELSE Slice(fromDb, 0, 32),
                             depth + 1)
                    leftHash  == IF goRight THEN Slice(fromDb, 0, 32) ELSE sub.hash
                    rightHash == IF goRight THEN sub.hash ELSE Slice(fromDb, 32, 64)
                    newHash   == Compress(leftHash, rightHash)
                    newChildrenBuffer == Concat(leftHash, rightHash)
                IN  IF ~sub.ok
                    THEN Failed(read \o sub.trace)
                    ELSE [ok |-> TRUE, path |-> <<>>, hash |-> newHash,
                          trace |-> read \o sub.trace
                                    \o << PutEntry(newHash, newChildrenBuffer),
                                          PutEntry(current, newChildrenBuffer) >>]

\* Mutant: the leaf level returns the digest of the zero leaf whatever the
\* value.
RECURSIVE updateRecursively_ZeroLeaf(_, _, _, _, _, _)
updateRecursively_ZeroLeaf(store, index, value, treeDepth, current, depth) ==
  IF treeDepth = depth
  THEN [ok |-> TRUE, path |-> <<>>, hash |-> Hash(Zero64), trace |-> <<>>]
  ELSE LET read   == << GetEntry(store, current) >>
           fromDb == Get(store, current)
       IN  IF fromDb = NotFound
           THEN Failed(read)
           ELSE LET goRight == shouldGoRight(index, treeDepth, depth) = 1
                    sub == updateRecursively_ZeroLeaf(store, index, value, treeDepth,
                             IF goRight THEN Slice(fromDb, 32, 64)
                                        ELSE Slice(fromDb, 0, 32),
                             depth + 1)
                    leftHash  == IF goRight THEN Slice(fromDb, 0, 32) ELSE sub.hash
                    rightHash == IF goRight THEN sub.hash ELSE Slice(fromDb, 32, 64)
                    newHash   == Compress(leftHash, rightHash)
                    newChildrenBuffer == Concat(leftHash, rightHash)
                IN  IF ~sub.ok
                    THEN Failed(read \o sub.trace)
                    ELSE [ok |-> TRUE, path |-> <<>>, hash |-> newHash,
                          trace |-> read \o sub.trace
                                    \o << PutEntry(newHash, newChildrenBuffer) >>]

\* updateElement, first definition.
RECURSIVE updateRecursively(_, _, _, _, _, _)
updateRecursively(store, index, value, treeDepth, current, depth) ==
  IF treeDepth = depth
  THEN [ok |-> TRUE, path |-> <<>>, hash |-> Hash(value), trace |-> <<>>]
  ELSE LET read   == << GetEntry(store, current) >>
           fromDb == Get(store, current)
       IN  IF fromDb = NotFound
           THEN Failed(read)
           ELSE LET goRight == shouldGoRight(index, treeDepth, depth) = 1
                    sub == updateRecursively(store, index, value, treeDepth,
                             IF goRight THEN Slice(fromDb, 32, 64)
                                        ELSE Slice(fromDb, 0, 32),
                             depth + 1)
                    leftHash  == IF goRight THEN Slice(fromDb, 0, 32) ELSE sub.hash
                    rightHash == IF goRight THEN sub.hash ELSE Slice(fromDb, 32, 64)
                    newHash   == Compress(leftHash, rightHash)
                    newChildrenBuffer == Concat(leftHash, rightHash)
                IN  IF ~sub.ok
                    THEN Failed(read \o sub.trace)
                    ELSE [ok |-> TRUE, path |-> <<>>, hash |-> newHash,
                          trace |-> read \o sub.trace
                                    \o << PutEntry(newHash, newChildrenBuffer) >>]

\* Mutant: the entry is keyed by the new child's digest instead of the
\* compression of both children.
RECURSIVE updateRecursive_ChildKey(_, _, _, _, _, _)
updateRecursive_ChildKey(store, index, value, treeDepth, current, depth) ==
  IF isLeaf(treeDepth, depth)
  THEN [ok |-> TRUE, path |-> <<>>, hash |-> Hash(value), trace |-> <<>>]
  ELSE LET read   == << GetEntry(store, current) >>
           parent == Get(store, current)
       IN  IF parent = NotFound
           THEN Failed(read)
           ELSE LET left  == Slice(parent, 0, 32)
                    right == Slice(parent, 32, 64)
                    goRight == shouldGoRight(index, treeDepth, depth) = 1
                    sub == updateRecursive_ChildKey(store, index, value, treeDepth,
                             IF goRight THEN right ELSE left, depth + 1)
                    newChildHash == sub.hash
                    compressedHash ==
                      IF goRight THEN Compress(left, newChildHash)
                                 ELSE Compress(newChildHash, right)
                    newParentDbValue ==
                      IF goRight THEN Concat(left, newChildHash)
                                 ELSE Concat(newChildHash, right)
                IN  IF ~sub.ok
                    THEN Failed(read \o sub.trace)
                    ELSE [ok |-> TRUE, path |-> <<>>, hash |-> compressedHash,
                          trace |-> read \o sub.trace
                                    \o << PutEntry(newChildHash, newParentDbValue) >>]

\* updateElement, second definition.
RECURSIVE updateRecursive(_, _, _, _, _, _)
updateRecursive(store, index, value, treeDepth, current, depth) ==
  IF isLeaf(treeDepth, depth)
  THEN [ok |-> TRUE, path |-> <<>>, hash |-> Hash(value), trace |-> <<>>]
  ELSE LET read   == << GetEntry(store, current) >>
           parent == Get(store, current)
       IN  IF parent = NotFound
           THEN Failed(read)
           ELSE LET left  == Slice(parent, 0, 32)
                    right == Slice(parent, 32, 64)
                    goRight == shouldGoRight(index, treeDepth, depth) = 1
                    sub == updateRecursive(store, index, value, treeDepth,
                             IF goRight THEN right ELSE left, depth + 1)
                    newChildHash == sub.hash
                    compressedHash ==
                      IF goRight THEN Compress(left, newChildHash)
                                 ELSE Compress(newChildHash, right)
                    newParentDbValue ==
                      IF goRight THEN Concat(left, newChildHash)
                                 ELSE Concat(newChildHash, right)
                IN  IF ~sub.ok
                    THEN Failed(read \o sub.trace)
                    ELSE [ok |-> TRUE, path |-> <<>>, hash |-> compressedHash,
                          trace |-> read \o sub.trace
                                    \o << PutEntry(compressedHash, newParentDbValue) >>]

\* Mutant: the new root is written to the metadata record but never assigned
\* to this.root.
updateElement_StaleRoot(i, store, t, index, value) ==
  LET r == IF i = 1
           THEN updateRecursively(store, index, value, t.depth, t.root, 0)
           ELSE updateRecursive(store, index, value, t.depth, t.root, 0)
  IN  IF r.ok
      THEN [ok |-> TRUE, tree |-> t,
            trace |-> Append(r.trace, writeMetaData(r.hash, t.depth))]
      ELSE [ok |-> FALSE, tree |-> t, trace |-> r.trace]

\* Mutant: the metadata record is written before the descent.
updateElement_MetaFirst(i, store, t, index, value) ==
  LET r == IF i = 1
           THEN updateRecursively(store, index, value, t.depth, t.root, 0)
           ELSE updateRecursive(store, index, value, t.depth, t.root, 0)
  IN  IF r.ok
      THEN [ok |-> TRUE, tree |-> Tree(r.hash, t.depth),
            trace |-> << writeMetaData(t.root, t.depth) >> \o r.trace]
      ELSE [ok |-> FALSE, tree |-> t,
            trace |-> << writeMetaData(t.root, t.depth) >> \o r.trace]

\* Mutant: the metadata record is not written.
updateElement_NoMetaData(i, store, t, index, value) ==
  LET r == IF i = 1
           THEN updateRecursively(store, index, value, t.depth, t.root, 0)
           ELSE updateRecursive(store, index, value, t.depth, t.root, 0)
  IN  IF r.ok
      THEN [ok |-> TRUE, tree |-> Tree(r.hash, t.depth), trace |-> r.trace]
      ELSE [ok |-> FALSE, tree |-> t, trace |-> r.trace]

\* updateElement(index, value) on an instance t: the new root becomes this.root
\* and the metadata record is written.
updateElement(i, store, t, index, value) ==
  LET r == IF i = 1
           THEN updateRecursively(store, index, value, t.depth, t.root, 0)
           ELSE updateRecursive(store, index, value, t.depth, t.root, 0)
  IN  IF r.ok
      THEN [ok |-> TRUE, tree |-> Tree(r.hash, t.depth),
            trace |-> Append(r.trace, writeMetaData(r.hash, t.depth))]
      ELSE [ok |-> FALSE, tree |-> t, trace |-> r.trace]

(* ---------------------------- state machine ---------------------------- *)

\* The 64-byte leaf values written by updateElement.
Values == {Zero64, One64}

\* The leaf values written in SpecFaults and SpecAsync.
AsyncValues == {One64}

\* The depth arguments passed to MerkleTree.new, valid and invalid.
DepthArgs == {0} \cup (1..MaxDepth) \cup {MAX_DEPTH + 1}

\* The valid indices of a tree of the given depth.
Indices(depth) == 0..((2 ^ depth) - 1)

\* The leftmost and the rightmost leaf: the indices used in SpecFaults.
EndIndices(depth) == {0, (2 ^ depth) - 1}

\* Marks an index that no updateElement has written.
Unwritten == <<>>

EmptyStore == <<>>

\* A store in which another writer left a record under the tree's name whose
\* depth field is outside [1, MAX_DEPTH].
ForeignStore(depth) == [k \in {Name} |-> <<Zero32, WriteUInt32LE(depth)>>]

InitialStores == {EmptyStore, ForeignStore(0), ForeignStore(MAX_DEPTH + 1)}

\* The hash paths of every index, as getHashPath returns them.
AllPaths(i, store, t) ==
  [j \in Indices(t.depth) |-> getHashPath(i, store, t, j).path]

\* The callers that may have a call in progress at the same time.  Caller 1
\* constructs the tree; after that each caller makes one call, caller 1 an
\* update and caller 2 an update or a getHashPath.
Procs == {1, 2}

Constructors == {1}

Readers == {2}

\* No call in progress.
IdleProc == [call |-> "idle", pc |-> "idle", index |-> 0, value |-> Zero64,
             depthArg |-> 0, cur |-> Zero32, level |-> 0, frames |-> <<>>,
             hash |-> Zero32, start |-> Zero32, meta |-> NotFound,
             path |-> <<>>, overlapped |-> FALSE, used |-> FALSE]

\* No buffer kept by a caller.
NoKept == [ref |-> 0, bytes |-> Zero32]

AuxInit ==
  /\ pending = {}
  /\ procs = [p \in Procs |-> IdleProc]
  /\ faulted = FALSE
  /\ heap = <<>>
  /\ rootBuf = 0
  /\ kept = NoKept

\* fault: the position in the call's store accesses of the one that failed
\* with an I/O error (0: none).  unhandled: a put whose promise nobody awaits
\* was rejected.
NoOp == [name |-> "none", index |-> 0, value |-> Zero64, depthArg |-> 0,
         ok |-> TRUE, restored |-> FALSE, path |-> <<>>, trace |-> <<>>,
         fault |-> 0, unhandled |-> FALSE]

Init ==
  /\ impl \in {1, 2}
  /\ db \in InitialStores
  /\ tree = NoTree
  /\ written = <<>>
  /\ held = {}
  /\ op = NoOp
  /\ nUpdates = 0
  /\ AuxInit

\* A call of MerkleTree.new(db, name, depthArg); the instance it returns
\* replaces the one held before.
CallNew(depthArg) ==
  LET r == New(impl, db, depthArg)
      store == Commit(db, r.trace)
  IN  /\ db' = store
      /\ tree' = r.tree
      /\ written' = IF r.ok /\ ~r.restored
                    THEN [j \in Indices(r.tree.depth) |-> Unwritten]
                    ELSE written
      /\ held' = IF r.ok
                 THEN held \cup {[root |-> r.tree.root,
                                  paths |-> AllPaths(impl, store, r.tree)]}
                 ELSE held
      /\ op' = [NoOp EXCEPT !.name = "new", !.depthArg = depthArg, !.ok = r.ok,
                            !.restored = r.restored, !.trace = r.trace]
      /\ UNCHANGED <<impl, nUpdates>>

\* A call of tree.updateElement(index, value).
CallUpdateElement(index, value) ==
  /\ tree.live
  /\ nUpdates < MaxUpdates
  /\ LET r == updateElement(impl, db, tree, index, value)
         store == Commit(db, r.trace)
     IN  /\ db' = store
         /\ tree' = r.tree
         /\ written' = IF r.ok THEN [written EXCEPT ![index] = value] ELSE written
         /\ held' = IF r.ok
                    THEN held \cup {[root |-> r.tree.root,
                                     paths |-> AllPaths(impl, store, r.tree)]}
                    ELSE held
         /\ op' = [NoOp EXCEPT !.name = "updateElement", !.index = index,
                               !.value = value, !.ok = r.ok, !.trace = r.trace]
  /\ nUpdates' = nUpdates + 1
  /\ UNCHANGED impl

\* A call of tree.getHashPath(index).
CallGetHashPath(index) ==
  /\ tree.live
  /\ LET r == getHashPath(impl, db, tree, index)
     IN  op' = [NoOp EXCEPT !.name = "getHashPath", !.index = index,
                            !.ok = r.ok, !.path = r.path, !.trace = r.trace]
  /\ UNCHANGED <<impl, db, tree, written, held, nUpdates>>

Next ==
  \/ (\E depthArg \in DepthArgs : CallNew(depthArg)) /\ UNCHANGED auxVars
  \/ (\E index \in Indices(tree.depth), value \in Values :
        CallUpdateElement(index, value)) /\ UNCHANGED auxVars
  \/ (\E index \in Indices(tree.depth) : CallGetHashPath(index))
       /\ UNCHANGED auxVars

Spec == Init /\ [][Next]_vars

(* ----------------------- calls on a failing store ---------------------- *)

\* In SpecFaults a call runs to its end as in Spec, and one of its store
\* accesses may fail with an I/O error, which rejects the promise of that
\* db.get or db.put.  What the call does next depends on what the code does
\* with the promise: an awaited one rejects the call, the get of new is
\* caught and ignored, and a put that is not awaited is lost while the call
\* goes on (the runtime reports the unhandled rejection or ends the process).
\* Besides, another writer may leave a node entry that is not 64 bytes long.

\* The first k accesses of a trace, the k-th having failed.
FailAt(trace, k) ==
  [n \in 1..k |->
     IF n < k THEN trace[n]
     ELSE [kind  |-> IF trace[n].kind = "get" THEN "getError" ELSE "putError",
           key   |-> trace[n].key,
           value |-> IF trace[n].kind = "get" THEN NotFound ELSE trace[n].value]]

\* A whole trace whose k-th access, a put nobody awaits, failed.
DropAt(trace, k) == FailAt(trace, k) \o SubSeq(trace, k + 1, Len(trace))

\* The store as new sees it when its get of the record is rejected: the
\* catch handler returns undefined, as for a record that is not there.
Hidden(store) == [k \in (DOMAIN store) \ {Name} |-> store[k]]

\* MerkleTree.new with the access at position fail failing (0: none).
NewFaulty(i, store, depthArg, fail) ==
  IF fail = 0
  THEN LET r == New(i, store, depthArg)
       IN  [ok |-> r.ok, tree |-> r.tree, restored |-> r.restored,
            trace |-> r.trace, unhandled |-> FALSE]
  ELSE IF fail = 1
  THEN LET r == New(i, Hidden(store), depthArg)
       IN  [ok |-> r.ok, tree |-> r.tree, restored |-> FALSE,
            trace |-> FailAt(r.trace, 1) \o Tail(r.trace),
            unhandled |-> FALSE]
  ELSE LET r == New(i, store, depthArg)
       IN  IF fail = Len(r.trace)
           THEN [ok |-> FALSE, tree |-> NoTree, restored |-> FALSE,
                 trace |-> FailAt(r.trace, fail), unhandled |-> FALSE]
           ELSE [ok |-> TRUE, tree |-> r.tree, restored |-> FALSE,
                 trace |-> DropAt(r.trace, fail), unhandled |-> TRUE]

\* updateElement with the access at position fail failing (0: none).
updateElementFaulty(i, store, t, index, value, fail) ==
  LET r == updateElement(i, store, t, index, value)
  IN  IF fail = 0
      THEN [ok |-> r.ok, tree |-> r.tree, trace |-> r.trace,
            unhandled |-> FALSE]
      ELSE IF r.trace[fail].kind = "get"
      THEN [ok |-> FALSE, tree |-> t, trace |-> FailAt(r.trace, fail),
            unhandled |-> FALSE]
      ELSE IF r.trace[fail].key = Name
      THEN [ok |-> FALSE, tree |-> r.tree, trace |-> FailAt(r.trace, fail),
            unhandled |-> FALSE]
      ELSE IF i = 1
      THEN [ok |-> TRUE, tree |-> r.tree, trace |-> DropAt(r.trace, fail),
            unhandled |-> TRUE]
      ELSE [ok |-> FALSE, tree |-> t, trace |-> FailAt(r.trace, fail),
            unhandled |-> FALSE]

\* getHashPath with the access at position fail failing (0: none).
getHashPathFaulty(i, store, t, index, fail) ==
  LET r == getHashPath(i, store, t, index)
  IN  IF fail = 0 THEN r ELSE Failed(FailAt(r.trace, fail))

\* The positions at which an access of a trace can fail, and none.
\* A behaviour has at most one store fault.
Faults(trace) == IF faulted THEN {0} ELSE 0..Len(trace)

\* A value that is not 64 bytes long: the entry with 32 more bytes.
Garbled(value) == value \o << Zero32 >>

FaultyInit ==
  /\ impl \in {1, 2}
  /\ db = EmptyStore
  /\ tree = NoTree
  /\ written = <<>>
  /\ held = {}
  /\ op = NoOp
  /\ nUpdates = 0
  /\ AuxInit

FaultyNew(depthArg, fail) ==
  /\ ~tree.live
  /\ fail \in Faults(New(impl, db, depthArg).trace)
  /\ faulted' = (faulted \/ fail # 0)
  /\ LET r == NewFaulty(impl, db, depthArg, fail)
     IN  /\ db' = Commit(db, r.trace)
         /\ tree' = r.tree
         /\ op' = [NoOp EXCEPT !.name = "new", !.depthArg = depthArg,
                               !.ok = r.ok, !.restored = r.restored,
                               !.trace = r.trace, !.fault = fail,
                               !.unhandled = r.unhandled]
  /\ UNCHANGED <<impl, written, held, nUpdates>>

FaultyUpdateElement(index, value, fail) ==
  /\ tree.live
  /\ nUpdates < MaxUpdates
  /\ fail \in Faults(updateElement(impl, db, tree, index, value).trace)
  /\ faulted' = (faulted \/ fail # 0)
  /\ LET r == updateElementFaulty(impl, db, tree, index, value, fail)
     IN  /\ db' = Commit(db, r.trace)
         /\ tree' = r.tree
         /\ op' = [NoOp EXCEPT !.name = "updateElement", !.index = index,
                               !.value = value, !.ok = r.ok, !.trace = r.trace,
                               !.fault = fail, !.unhandled = r.unhandled]
  /\ nUpdates' = nUpdates + 1
  /\ UNCHANGED <<impl, written, held>>

FaultyGetHashPath(index, fail) ==
  /\ tree.live
  /\ fail \in Faults(getHashPath(impl, db, tree, index).trace)
  /\ faulted' = (faulted \/ fail # 0)
  /\ LET r == getHashPathFaulty(impl, db, tree, index, fail)
     IN  op' = [NoOp EXCEPT !.name = "getHashPath", !.index = index,
                            !.ok = r.ok, !.path = r.path, !.trace = r.trace,
                            !.fault = fail]
  /\ UNCHANGED <<impl, db, tree, written, held, nUpdates>>

\* Another writer leaves a node entry that is not 64 bytes long.
Damage(key) ==
  /\ key \in (DOMAIN db) \ {Name}
  /\ ~faulted
  /\ faulted' = TRUE
  /\ db' = Put(db, key, Garbled(db[key]))
  /\ op' = [NoOp EXCEPT !.name = "damage"]
  /\ UNCHANGED <<impl, tree, written, held, nUpdates>>

\* The process ends, by its owner or by the runtime on an unhandled
\* rejection: the instance is gone, the store stays.
ProcessExit ==
  /\ tree.live
  /\ tree' = NoTree
  /\ op' = [NoOp EXCEPT !.name = "exit"]
  /\ UNCHANGED <<impl, db, written, held, nUpdates, faulted>>

\* The variables SpecFaults leaves alone.
asyncVars == <<pending, procs, heap, rootBuf, kept>>

FaultyNext ==
  \/ (\E depthArg \in DepthArgs :
        \E fail \in Faults(New(impl, db, depthArg).trace) :
          FaultyNew(depthArg, fail)) /\ UNCHANGED asyncVars
  \/ (\E index \in EndIndices(tree.depth), value \in AsyncValues :
        \E fail \in Faults(updateElement(impl, db, tree, index, value).trace) :
          FaultyUpdateElement(index, value, fail)) /\ UNCHANGED asyncVars
  \/ (\E index \in EndIndices(tree.depth) :
        \E fail \in Faults(getHashPath(impl, db, tree, index).trace) :
          FaultyGetHashPath(index, fail)) /\ UNCHANGED asyncVars
  \/ (\E key \in DOMAIN db : Damage(key)) /\ UNCHANGED asyncVars
  \/ ProcessExit /\ UNCHANGED asyncVars

SpecFaults == FaultyInit /\ [][FaultyNext]_vars

(* ----------------- calls interleaved at store accesses ------------------ *)

\* In SpecAsync a call is a sequence of steps, one per store access, and the
\* steps of the calls in progress interleave.  db.put(key, value) issues a
\* put: it joins `pending` and commits in a later step, in any order with
\* the other pending puts.  A put that the code awaits carries the caller
\* that waits for it (by), a put whose promise is dropped carries 0.

PendingPut(key, value, by) == [key |-> key, value |-> value, by |-> by]

\* The puts of a trace, issued without anyone awaiting them.
Unawaited(trace) ==
  {PendingPut(trace[n].key, trace[n].value, 0) : n \in 1..Len(trace)}

Reverse(s) == [k \in 1..Len(s) |-> s[Len(s) + 1 - k]]

AsyncInit ==
  /\ impl \in {1, 2}
  /\ db = EmptyStore
  /\ tree = NoTree
  /\ written = <<>>
  /\ held = {}
  /\ op = NoOp
  /\ nUpdates = 0
  /\ AuxInit

Active(p, call) == procs[p].call = call /\ procs[p].pc \notin {"done", "failed"}

\* MerkleTree.new is called: nothing happens before its db.get.
AsyncNewStart(p, depthArg) ==
  /\ tree = NoTree
  /\ \A q \in Procs : procs[q].call = "idle"
  /\ procs' = [procs EXCEPT ![p] = [IdleProc EXCEPT !.call = "new", !.pc = "get",
                                                    !.depthArg = depthArg]]
  /\ UNCHANGED <<impl, db, tree, written, held, op, nUpdates, pending,
                 faulted, heap, rootBuf, kept>>

\* await db.get(Buffer.from(name)).catch(() => {}).
AsyncNewGet(p) ==
  /\ procs[p].call = "new" /\ procs[p].pc = "get"
  /\ procs' = [procs EXCEPT ![p].meta = Get(db, Name), ![p].pc = "construct"]
  /\ UNCHANGED <<impl, db, tree, written, held, op, nUpdates, pending,
                 faulted, heap, rootBuf, kept>>

\* The rest of new up to its next await: the constructor, whose puts are
\* issued and not awaited, and on the fresh branch the call of
\* tree.writeMetaData(), whose put new awaits.
AsyncNewConstruct(p) ==
  /\ procs[p].call = "new" /\ procs[p].pc = "construct"
  /\ LET meta == procs[p].meta
     IN  IF meta # NotFound
         THEN LET c == Constructor(impl, ReadUInt32LE(meta, 32), TRUE,
                                   Slice(meta, 0, 32))
              IN  /\ tree' = c.tree
                  /\ pending' = pending
                  /\ procs' = [procs EXCEPT ![p].pc =
                                 IF c.ok THEN "done" ELSE "failed"]
         ELSE LET c == Constructor(impl, procs[p].depthArg, FALSE, Zero32)
              IN  IF c.ok
                  THEN /\ tree' = [c.tree EXCEPT !.live = FALSE]
                       /\ pending' = pending \cup Unawaited(c.trace) \cup
                            {PendingPut(Name,
                               writeMetaData(c.tree.root, c.tree.depth).value, p)}
                       /\ procs' = [procs EXCEPT ![p].pc = "awaitMeta"]
                  ELSE /\ tree' = NoTree
                       /\ pending' = pending
                       /\ procs' = [procs EXCEPT ![p].pc = "failed"]
  /\ UNCHANGED <<impl, db, written, held, op, nUpdates, faulted, heap, rootBuf, kept>>

\* updateElement(index, value) is called: this.root is passed to the
\* recursion, whose first statement that takes time is the get of the root.
AsyncUpdateStart(p, index, value) ==
  /\ tree.live
  /\ procs[p].call = "idle" /\ ~procs[p].used
  /\ nUpdates < MaxUpdates
  /\ procs' = [q \in Procs |->
                IF q = p
                THEN [IdleProc EXCEPT !.call = "update", !.pc = "read",
                                      !.index = index, !.value = value,
                                      !.cur = tree.root, !.start = tree.root]
                ELSE IF Active(q, "path")
                THEN [procs[q] EXCEPT !.overlapped = TRUE]
                ELSE procs[q]]
  /\ nUpdates' = nUpdates + 1
  /\ UNCHANGED <<impl, db, tree, written, held, op, pending, faulted, heap,
                 rootBuf, kept>>

\* await this.db.get(current) of the update's descent, and the slice that
\* selects the child to descend into.  A miss rejects and ends the call.
AsyncUpdateRead(p) ==
  /\ procs[p].call = "update" /\ procs[p].pc = "read"
  /\ LET me     == procs[p]
         fromDb == Get(db, me.cur)
     IN  procs' = [procs EXCEPT ![p] =
           IF fromDb = NotFound
           THEN [me EXCEPT !.pc = "failed"]
           ELSE LET goRight == shouldGoRight(me.index, tree.depth, me.level) = 1
                IN  [me EXCEPT !.frames = Append(me.frames, fromDb),
                               !.cur = IF goRight THEN Slice(fromDb, 32, 64)
                                                  ELSE Slice(fromDb, 0, 32),
                               !.level = me.level + 1,
                               !.hash = Hash(me.value),
                               !.pc = IF isLeaf(tree.depth, me.level + 1)
                                      THEN "put" ELSE "read"]]
  /\ UNCHANGED <<impl, db, tree, written, held, op, nUpdates, pending,
                 faulted, heap, rootBuf, kept>>

\* Mutant: the new node is stored under the digest of the new child.
NewNode_ChildKey(fromDb, goRight, childHash) ==
  LET leftHash  == IF goRight THEN Slice(fromDb, 0, 32) ELSE childHash
      rightHash == IF goRight THEN childHash ELSE Slice(fromDb, 32, 64)
  IN  [key |-> childHash, value |-> Concat(leftHash, rightHash)]

\* The node an update stores for one level: the new child on the side of
\* the route, the sibling read on the descent on the other.
NewNode(fromDb, goRight, childHash) ==
  LET leftHash  == IF goRight THEN Slice(fromDb, 0, 32) ELSE childHash
      rightHash == IF goRight THEN childHash ELSE Slice(fromDb, 32, 64)
  IN  [key |-> Compress(leftHash, rightHash), value |-> Concat(leftHash, rightHash)]

\* One level of the update's ascent: the new node is compressed from the
\* new child and the sibling read on the descent, and its put is issued.
\* The first definition drops the put's promise, the second awaits it.
AsyncUpdatePut(p) ==
  /\ procs[p].call = "update" /\ procs[p].pc = "put"
  /\ LET me      == procs[p]
         fromDb  == me.frames[me.level]
         goRight == shouldGoRight(me.index, tree.depth, me.level - 1) = 1
         node    == NewNode(fromDb, goRight, me.hash)
         after   == IF me.level = 1 THEN "setroot" ELSE "put"
     IN  /\ pending' = pending \cup
              {PendingPut(node.key, node.value, IF impl = 1 THEN 0 ELSE p)}
         /\ procs' = [procs EXCEPT ![p] =
              [me EXCEPT !.hash = node.key, !.level = me.level - 1,
                         !.frames = SubSeq(me.frames, 1, me.level - 1),
                         !.pc = IF impl = 1 THEN after ELSE "awaitPut"]]
  /\ UNCHANGED <<impl, db, tree, written, held, op, nUpdates, faulted, heap, rootBuf, kept>>

\* The result of the recursion becomes this.root and writeMetaData() issues
\* the put of the record, which updateElement awaits.
AsyncUpdateSetRoot(p) ==
  /\ procs[p].call = "update" /\ procs[p].pc = "setroot"
  /\ tree' = [tree EXCEPT !.root = procs[p].hash]
  /\ pending' = pending \cup
       {PendingPut(Name, writeMetaData(procs[p].hash, tree.depth).value, p)}
  /\ procs' = [procs EXCEPT ![p].pc = "awaitMeta"]
  /\ UNCHANGED <<impl, db, written, held, op, nUpdates, faulted, heap, rootBuf, kept>>

\* getHashPath(index) is called: this.root is passed to the recursion.
AsyncPathStart(p, index) ==
  /\ tree.live
  /\ procs[p].call = "idle" /\ ~procs[p].used
  /\ procs' = [procs EXCEPT ![p] =
       [IdleProc EXCEPT !.call = "path", !.pc = "read", !.index = index,
                        !.cur = tree.root, !.start = tree.root,
                        !.overlapped = \E q \in Procs : Active(q, "update")]]
  /\ UNCHANGED <<impl, db, tree, written, held, op, nUpdates, pending,
                 faulted, heap, rootBuf, kept>>

\* await this.db.get(current) of getHashPath.  The pairs are pushed on the
\* way back from the leaf level, so the path is the reads in reverse.
AsyncPathRead(p) ==
  /\ procs[p].call = "path" /\ procs[p].pc = "read"
  /\ LET me     == procs[p]
         fromDb == Get(db, me.cur)
     IN  procs' = [procs EXCEPT ![p] =
           IF fromDb = NotFound
           THEN [me EXCEPT !.pc = "failed"]
           ELSE LET goRight == shouldGoRight(me.index, tree.depth, me.level) = 1
                    read    == Append(me.frames, fromDb)
                    last    == isLeaf(tree.depth, me.level + 1)
                IN  [me EXCEPT !.frames = read,
                               !.cur = IF goRight THEN Slice(fromDb, 32, 64)
                                                  ELSE Slice(fromDb, 0, 32),
                               !.level = me.level + 1,
                               !.path = IF last THEN Reverse(read) ELSE <<>>,
                               !.pc = IF last THEN "done" ELSE "read"]]
  /\ UNCHANGED <<impl, db, tree, written, held, op, nUpdates, pending,
                 faulted, heap, rootBuf, kept>>

\* The store commits a pending put; the caller awaiting it resumes.
AsyncCommit(put) ==
  /\ put \in pending
  /\ db' = Put(db, put.key, put.value)
  /\ pending' = pending \ {put}
  /\ IF put.by = 0
     THEN UNCHANGED <<procs, tree>>
     ELSE LET me == procs[put.by]
          IN  /\ procs' = [procs EXCEPT ![put.by].pc =
                   IF me.pc = "awaitPut"
                   THEN (IF me.level = 0 THEN "setroot" ELSE "put")
                   ELSE "done"]
              /\ tree' = IF me.call = "new" THEN [tree EXCEPT !.live = TRUE]
                                            ELSE tree
  /\ UNCHANGED <<impl, written, held, op, nUpdates, faulted, heap, rootBuf, kept>>

\* The caller takes the result of a call that ended.
AsyncReturn(p) ==
  /\ procs[p].pc \in {"done", "failed"}
  /\ procs' = [procs EXCEPT ![p] =
       [IdleProc EXCEPT !.used = procs[p].call # "new"]]
  /\ UNCHANGED <<impl, db, tree, written, held, op, nUpdates, pending,
                 faulted, heap, rootBuf, kept>>

AsyncNext ==
  \/ \E p \in Constructors, depthArg \in DepthArgs : AsyncNewStart(p, depthArg)
  \/ \E p \in Procs : AsyncNewGet(p)
  \/ \E p \in Procs : AsyncNewConstruct(p)
  \/ \E p \in Procs, index \in Indices(tree.depth), value \in AsyncValues :
       AsyncUpdateStart(p, index, value)
  \/ \E p \in Procs : AsyncUpdateRead(p)
  \/ \E p \in Procs : AsyncUpdatePut(p)
  \/ \E p \in Procs : AsyncUpdateSetRoot(p)
  \/ \E p \in Readers, index \in Indices(tree.depth) : AsyncPathStart(p, index)
  \/ \E p \in Procs : AsyncPathRead(p)
  \/ \E put \in pending : AsyncCommit(put)
  \/ \E p \in Procs : AsyncReturn(p)

SpecAsync == AsyncInit /\ [][AsyncNext]_vars

(* --------------------------- buffer identity --------------------------- *)

\* In SpecAlias the root is a Buffer object: heap[b] is the content of
\* Buffer b, rootBuf the Buffer that this.root refers to, and kept the
\* Buffer a caller obtained from getRoot() or updateElement() together with
\* the digest it held at that moment.  getRoot and updateElement return
\* this.root itself, not a copy.

AliasInit ==
  /\ impl \in {1, 2}
  /\ db = EmptyStore
  /\ tree = NoTree
  /\ written = <<>>
  /\ held = {}
  /\ op = NoOp
  /\ nUpdates = 0
  /\ AuxInit

\* The Buffer returned to the caller, with its content at the return.
Keep(buffers, b) == [ref |-> b, bytes |-> buffers[b]]

\* MerkleTree.new: the instance's root is a Buffer of its own, the one the
\* field initializer allocates (first definition, filled by copy) or the one
\* assigned to the field (second definition).
AliasNew(depthArg) ==
  /\ ~tree.live
  /\ LET r == New(impl, db, depthArg)
     IN  /\ db' = Commit(db, r.trace)
         /\ tree' = r.tree
         /\ heap' = IF r.ok THEN Append(heap, r.tree.root) ELSE heap
         /\ rootBuf' = IF r.ok THEN Len(heap) + 1 ELSE 0
         /\ op' = [NoOp EXCEPT !.name = "new", !.depthArg = depthArg,
                               !.ok = r.ok, !.restored = r.restored,
                               !.trace = r.trace]
  /\ UNCHANGED <<impl, written, held, nUpdates, pending, procs, faulted, kept>>

\* getRoot(): return this.root.
AliasGetRoot ==
  /\ tree.live
  /\ kept' = Keep(heap, rootBuf)
  /\ op' = [NoOp EXCEPT !.name = "getRoot"]
  /\ UNCHANGED <<impl, db, tree, written, held, nUpdates, pending, procs,
                 faulted, heap, rootBuf>>

\* updateElement: the first definition copies the new digest into the
\* Buffer of this.root, the second assigns the new Buffer to this.root.
\* Both return this.root, which the caller keeps or not.
AliasUpdateElement(index, value, keeps) ==
  /\ tree.live
  /\ nUpdates < MaxUpdates
  /\ LET r == updateElement(impl, db, tree, index, value)
         buffers == IF ~r.ok THEN heap
                    ELSE IF impl = 1
                    THEN [heap EXCEPT ![rootBuf] = r.tree.root]
                    ELSE Append(heap, r.tree.root)
         b == IF r.ok /\ impl = 2 THEN Len(heap) + 1 ELSE rootBuf
     IN  /\ db' = Commit(db, r.trace)
         /\ tree' = r.tree
         /\ heap' = buffers
         /\ rootBuf' = b
         /\ kept' = IF r.ok /\ keeps THEN Keep(buffers, b) ELSE kept
         /\ op' = [NoOp EXCEPT !.name = "updateElement", !.index = index,
                               !.value = value, !.ok = r.ok, !.trace = r.trace]
  /\ nUpdates' = nUpdates + 1
  /\ UNCHANGED <<impl, written, held, pending, procs, faulted>>

AliasNext ==
  \/ \E depthArg \in DepthArgs : AliasNew(depthArg)
  \/ AliasGetRoot
  \/ \E index \in Indices(tree.depth), value \in Values, keeps \in BOOLEAN :
       AliasUpdateElement(index, value, keeps)

SpecAlias == AliasInit /\ [][AliasNext]_vars

(* ------------------------ reference definitions ------------------------ *)

\* Bit k of an index (bit 0 is the least significant).
Bit(index, k) == (index \div (2 ^ k)) % 2

\* The leaf digest that the calls so far define for index j.
LeafDigest(j) ==
  IF written[j] = Unwritten THEN Hash(Zero64) ELSE Hash(written[j])

\* The Merkle root of the leaves lo .. lo + 2^(d-level) - 1: the left half of
\* the range is the left subtree, so the first split is on bit d-1.
RECURSIVE MerkleNode(_, _, _)
MerkleNode(lo, level, d) ==
  IF level = d
  THEN LeafDigest(lo)
  ELSE Compress(MerkleNode(lo, level + 1, d),
                MerkleNode(lo + 2 ^ (d - level - 1), level + 1, d))

\* compress applied n times to the duplicated digest of the zero leaf.
RECURSIVE ZeroTree(_)
ZeroTree(n) ==
  IF n = 0 THEN Hash(Zero64) ELSE Compress(ZeroTree(n - 1), ZeroTree(n - 1))

\* The puts of a trace, in order.
PutsOf(trace) == SelectSeq(trace, LAMBDA e : e.kind = "put")

\* The gets of a trace, in order.
GetsOf(trace) == SelectSeq(trace, LAMBDA e : e.kind = "get")

\* The puts of a trace to node keys (every key but the name).
NodePutsOf(trace) == SelectSeq(trace, LAMBDA e : e.kind = "put" /\ e.key # Name)

\* The puts of a trace to the metadata key.
MetaPutsOf(trace) == SelectSeq(trace, LAMBDA e : e.kind = "put" /\ e.key = Name)

NodeKeys(store) == (DOMAIN store) \ {Name}

(* ------------------------------- claims -------------------------------- *)

\* C1: after fresh construction and any sequence of updateElement calls with
\* valid indices, getRoot() is the Merkle root of the reference leaf array
\* (hash of the last value written at an index, hash of 64 zero bytes where
\* nothing was written), the most significant index bit splitting first.
C1_RootIsMerkleRoot ==
  tree.live => tree.root = MerkleNode(0, 0, tree.depth)

C1_Witness ==
  /\ tree.live /\ tree.depth = 2 /\ nUpdates = 2
  /\ written[1] = One64 /\ written[2] = One64
  /\ written[0] = Unwritten /\ written[3] = Unwritten

\* C2: after updateElement(index, value) the path of getHashPath(index)
\* verifies against getRoot(): hash(value) is the element of pair 0 selected
\* by bit 0 of index, the compression of pair k is the element of pair k+1
\* selected by bit k+1, and the compression of the last pair is the root.
C2_PathVerifiesAfterUpdate ==
  (op.name = "updateElement" /\ op.ok) =>
    LET d == tree.depth
        r == getHashPath(impl, db, tree, op.index)
        P == r.path
    IN  /\ r.ok
        /\ Len(P) = d
        /\ P[1][Bit(op.index, 0) + 1] = Hash(op.value)
        /\ \A k \in 1..(d - 1) :
             Compress(P[k][1], P[k][2]) = P[k + 1][Bit(op.index, k) + 1]
        /\ Compress(P[d][1], P[d][2]) = tree.root

C2_Witness ==
  /\ op.name = "updateElement" /\ op.ok
  /\ tree.depth = 2 /\ op.index = 2 /\ op.value = One64 /\ nUpdates = 2

\* C3: fresh construction with depth d yields root = digest[0], where
\* digest[d] = hash(64 zero bytes) and digest[i] = compress(digest[i+1],
\* digest[i+1]); it puts exactly d node entries digest[i] -> digest[i+1] ||
\* digest[i+1], i = 0..d-1, and no entry keyed by the leaf digest.
C3_FreshConstruction ==
  (op.name = "new" /\ op.ok /\ ~op.restored) =>
    LET d == tree.depth
        nodePuts == NodePutsOf(op.trace)
    IN  /\ d = op.depthArg
        /\ tree.root = ZeroTree(d)
        /\ Len(nodePuts) = d
        /\ \A i \in 0..(d - 1) : \E k \in 1..d :
             nodePuts[k] = PutEntry(ZeroTree(d - i),
                                    <<ZeroTree(d - i - 1), ZeroTree(d - i - 1)>>)
        /\ NodeKeys(db) = {ZeroTree(d - i) : i \in 0..(d - 1)}
        /\ Hash(Zero64) \notin DOMAIN db

C3_Witness ==
  op.name = "new" /\ op.ok /\ ~op.restored /\ tree.depth = 2 /\ impl = 2

\* C4: restoration round trip.  A second MerkleTree.new on the store of a live
\* instance, after any number of updates, restores an instance with the same
\* depth and root whose getHashPath(j) equals the first instance's for
\* every index j.
C4_RestorationRoundTrip ==
  [][(tree.live /\ op'.name = "new") =>
       /\ op'.ok /\ op'.restored /\ tree'.live
       /\ tree'.depth = tree.depth
       /\ tree'.root = tree.root
       /\ \A j \in Indices(tree.depth) :
            LET first  == getHashPath(impl, db, tree, j)
                second == getHashPath(impl, db', tree', j)
            IN  first.ok /\ second.ok /\ second.path = first.path]_vars

C4_Witness ==
  /\ op.name = "new" /\ op.ok /\ op.restored
  /\ tree.depth = 2 /\ nUpdates = 2 /\ op.depthArg = 1
  /\ written[3] = One64

\* The 0-based position of the highest bit in which i and j differ (i # j).
RECURSIVE HighestDifferingBit(_, _)
HighestDifferingBit(i, j) ==
  IF i \div 2 = j \div 2 THEN 0 ELSE 1 + HighestDifferingBit(i \div 2, j \div 2)

\* The routes of i and j part above the leaf level: they differ in a bit
\* other than bit 0.
DivergesAboveLeaf(i, j) == i \div 2 # j \div 2

\* C5 as stated: updating index i leaves every pair of getHashPath(j)
\* unchanged for every j whose route diverges from i above the leaf level.
C5_AllPairsUnchanged ==
  [][(op'.name = "updateElement" /\ op'.ok) =>
       \A j \in Indices(tree.depth) :
         DivergesAboveLeaf(op'.index, j) =>
           getHashPath(impl, db', tree', j).path
             = getHashPath(impl, db, tree, j).path]_vars

\* C5 (amended): updating index i leaves unchanged the pairs of
\* getHashPath(j) below the node where the routes of i and j part: with b the
\* highest bit in which i and j differ, pairs 0 .. b-1 (leaf-to-root) are
\* unchanged, and when the update changes the root, the pairs b .. d-1, the
\* children of the nodes shared by both routes, do change.
C5_PairsBelowSplitUnchanged ==
  [][(op'.name = "updateElement" /\ op'.ok) =>
       \A j \in Indices(tree.depth) :
         DivergesAboveLeaf(op'.index, j) =>
           LET b      == HighestDifferingBit(op'.index, j)
               before == getHashPath(impl, db, tree, j).path
               after  == getHashPath(impl, db', tree', j).path
           IN  /\ Len(after) = tree.depth /\ Len(before) = tree.depth
               /\ \A k \in 1..b : after[k] = before[k]
               /\ tree'.root # tree.root =>
                    \A k \in (b + 1)..tree.depth : after[k] # before[k]]_vars

\* The depth-2 scenario: all-zero tree, updateElement(3, 64 bytes of 0x01).
C5_Witness ==
  /\ op.name = "updateElement" /\ op.ok
  /\ tree.depth = 2 /\ op.index = 3 /\ op.value = One64 /\ nUpdates = 1

\* A depth outside [1, 32].
OutsideRange(depth) == depth < 1 \/ depth > MAX_DEPTH

\* C6: construction with a depth outside [1, 32], passed by the caller on
\* fresh construction or read from the metadata record on restoration,
\* fails, yields no instance and puts nothing to the store.
C6_BadDepthRejected ==
  (/\ op.name = "new"
   /\ IF op.restored
      THEN OutsideRange(ReadUInt32LE(op.trace[1].value, 32))
      ELSE OutsideRange(op.depthArg)) =>
    /\ ~op.ok
    /\ ~tree.live
    /\ PutsOf(op.trace) = <<>>
    /\ db \in InitialStores

C6_Witness ==
  /\ op.name = "new" /\ op.restored /\ ~op.ok
  /\ ReadUInt32LE(db[Name], 32) = MAX_DEPTH + 1

C6_WitnessFresh ==
  op.name = "new" /\ ~op.restored /\ ~op.ok /\ op.depthArg = 0 /\ db = EmptyStore

\* The node at the given level on the route of index from root, found by
\* descending through the store (level 0 is the root).
RECURSIVE RouteNode(_, _, _, _, _)
RouteNode(store, root, index, d, level) ==
  IF level = 0
  THEN root
  ELSE store[RouteNode(store, root, index, d, level - 1)][Bit(index, d - level) + 1]

\* C7: getHashPath(index) returns exactly d pairs ordered leaf-to-root: pair
\* k is the stored (left, right) of the node at level d-1-k on the route of
\* index, so pair 0 holds the two leaf digests and pair d-1 the children of
\* the root.
C7_PathShape ==
  (op.name = "getHashPath") =>
    LET d == tree.depth
    IN  /\ op.ok
        /\ Len(op.path) = d
        /\ \A k \in 0..(d - 1) :
             op.path[k + 1] = db[RouteNode(db, tree.root, op.index, d, d - 1 - k)]
        /\ op.path[1] = <<LeafDigest(2 * (op.index \div 2)),
                          LeafDigest(2 * (op.index \div 2) + 1)>>
        /\ op.path[d] = db[tree.root]

C7_Witness ==
  /\ op.name = "getHashPath" /\ op.ok /\ tree.depth = 2 /\ op.index = 2
  /\ written[3] = One64 /\ written[0] = One64

C7_WitnessDepth1 ==
  op.name = "getHashPath" /\ op.ok /\ tree.depth = 1 /\ Len(op.path) = 1

\* A store entry is content-addressed: 64 bytes, keyed by the compression of
\* its two halves.
ContentAddressed(key, value) ==
  Len(value) = 2 /\ key = Compress(Slice(value, 0, 32), Slice(value, 32, 64))

\* C8: in every reachable state every store entry other than the metadata
\* record has a 64-byte value with key = compress(value[0:32], value[32:64]),
\* and no put changes the value already stored under an existing node key.
C8_ContentAddressedStore ==
  [][/\ \A k \in NodeKeys(db') : ContentAddressed(k, db'[k])
     /\ \A n \in 1..Len(NodePutsOf(op'.trace)) :
          ContentAddressed(NodePutsOf(op'.trace)[n].key,
                           NodePutsOf(op'.trace)[n].value)
     /\ \A k \in NodeKeys(db) : k \in NodeKeys(db') /\ db'[k] = db[k]]_vars

\* An update that puts, among others, a node entry whose key the store holds
\* already.
C8_Witness ==
  /\ op.name = "updateElement" /\ op.ok /\ nUpdates = 2 /\ tree.depth = 2
  /\ op.value = Zero64 /\ written[3] = One64 /\ op.index = 0
  /\ Cardinality(NodeKeys(db)) < 6

\* C9: for every root the tree has ever held and every index, descending
\* from that root through the store resolves all depth levels and yields the
\* pairs getHashPath returned while that root was current.
C9_OldRootsRetrievable ==
  tree.live =>
    \A h \in held : \A j \in Indices(tree.depth) :
      LET r == getHashPath(impl, db, Tree(h.root, tree.depth), j)
      IN  r.ok /\ Len(r.path) = tree.depth /\ r.path = h.paths[j]

C9_Witness ==
  /\ tree.live /\ tree.depth = 2 /\ nUpdates = 2 /\ Cardinality(held) = 3
  /\ written[0] = One64 /\ written[3] = One64

\* C10 as stated: every put to the metadata key carries root || depth (LE)
\* with the tree's actual root, never the 32 zero bytes of the field
\* initializer, and after new or updateElement the stored record equals the
\* in-memory (root, depth).
C10_MetadataCarriesRoot ==
  (op.name \in {"new", "updateElement"} /\ op.ok) =>
    /\ \A n \in 1..Len(MetaPutsOf(op.trace)) :
         /\ MetaPutsOf(op.trace)[n].value = <<tree.root, WriteUInt32LE(tree.depth)>>
         /\ Slice(MetaPutsOf(op.trace)[n].value, 0, 32) # Zero32
    /\ Get(db, Name) = <<tree.root, WriteUInt32LE(tree.depth)>>

\* C12 as stated: a store get or put that fails with an I/O error during new,
\* getHashPath or updateElement makes the operation fail to its caller: new
\* does not take a failed get of the record for an absent record and write
\* to the store, and a failed node put is not silently dropped.
C12_StoreFailuresPropagate ==
  (op.fault # 0) =>
    /\ ~op.ok
    /\ ~op.unhandled
    /\ (op.name = "new" /\ op.trace[1].kind = "getError") =>
         \A n \in 1..Len(op.trace) : op.trace[n].kind \notin {"put", "putError"}

\* C13 as stated: when a store entry read on the descent is missing or is
\* not exactly 64 bytes long, getHashPath and updateElement fail and return
\* no path or root computed from it.
C13_BadEntriesRejected ==
  (/\ op.name \in {"getHashPath", "updateElement"}
   /\ \E n \in 1..Len(op.trace) :
        op.trace[n].kind = "get" /\ Len(op.trace[n].value) # 2) =>
    /\ ~op.ok
    /\ op.path = <<>>

\* C14: a successful updateElement on a tree of depth d performs exactly d
\* store reads, the nodes of the route from the root down, and exactly d node
\* writes plus one metadata write, whatever the index and the history.
C14_UpdateCost ==
  (op.name = "updateElement" /\ op.ok) =>
    LET d == tree.depth
    IN  /\ Len(GetsOf(op.trace)) = d
        /\ \A n \in 1..d : GetsOf(op.trace)[n].key # Name
        /\ Len(NodePutsOf(op.trace)) = d
        /\ Len(MetaPutsOf(op.trace)) = 1
        /\ Len(op.trace) = 2 * d + 1

\* The second update of a depth-2 tree, at another index than the first.
C14_Witness ==
  /\ op.name = "updateElement" /\ op.ok /\ tree.depth = 2 /\ nUpdates = 2
  /\ op.index = 1 /\ written[2] = One64 /\ Len(op.trace) = 5

\* C16: when the metadata record exists, new performs exactly one store
\* read, of the record, and no write; the instance it constructs has the
\* record's first 32 bytes as root and the little-endian integer in its next
\* 4 bytes as depth, whatever the depth argument.
C16_RestorationCost ==
  (op.name = "new" /\ op.restored) =>
    /\ Len(op.trace) = 1
    /\ op.trace[1].kind = "get" /\ op.trace[1].key = Name
    /\ op.trace[1].value = Get(db, Name)
    /\ op.ok =>
         /\ tree.live
         /\ tree.root = Slice(op.trace[1].value, 0, 32)
         /\ WriteUInt32LE(tree.depth) = op.trace[1].value[2]

\* A restoration after an update, called with another depth than the tree's.
C16_Witness ==
  /\ op.name = "new" /\ op.restored /\ op.ok
  /\ tree.depth = 2 /\ op.depthArg = MAX_DEPTH + 1 /\ nUpdates = 1
  /\ tree.root # ZeroTree(2)

\* A path of d pairs verifies against a root for an index: the compression
\* of pair k is the element of pair k+1 selected by bit k+1 of the index, and
\* the compression of the last pair is the root.
Verifies(P, index, root, d) ==
  /\ Len(P) = d
  /\ \A k \in 1..(d - 1) :
       Compress(P[k][1], P[k][2]) = P[k + 1][Bit(index, k) + 1]
  /\ Compress(P[d][1], P[d][2]) = root

\* C11 as stated: a getHashPath(j) whose store reads interleave with those
\* of a concurrent updateElement on the same instance never reads a missing
\* entry, and returns the complete path of j, verifying against the root
\* the tree had when the call started.
C11_ReaderUnaffected ==
  \A p \in Procs :
    (procs[p].call = "path" /\ procs[p].overlapped
       /\ procs[p].pc \in {"done", "failed"}) =>
      /\ procs[p].pc = "done"
      /\ Verifies(procs[p].path, procs[p].index, procs[p].start, tree.depth)

\* The Merkle root of the leaves lo .. lo + 2^(d-level) - 1 of an array of
\* leaf digests.
RECURSIVE MerkleOf(_, _, _, _)
MerkleOf(leaves, lo, level, d) ==
  IF level = d
  THEN leaves[lo]
  ELSE Compress(MerkleOf(leaves, lo, level + 1, d),
                MerkleOf(leaves, lo + 2 ^ (d - level - 1), level + 1, d))

\* The root of the tree of depth d in which exactly the indices of the set
\* `updated` carry the value One64 and every other leaf is zero.
RootWith(updated, d) ==
  MerkleOf([j \in Indices(d) |-> IF j \in updated THEN Hash(One64)
                                                  ELSE Hash(Zero64)], 0, 0, d)

\* Both callers have completed an updateElement, at different indices.
BothUpdated ==
  /\ \A p \in Procs : procs[p].call = "update" /\ procs[p].pc = "done"
  /\ procs[1].index # procs[2].index

\* C15: two updateElement calls at different indices whose store accesses
\* interleave can end with the in-memory root and the metadata record
\* reflecting only one of the updates (C15_Witness); in every interleaving
\* every node entry written, committed or still pending, is keyed by the
\* compression of its two halves, and the final root is that of both updates
\* or of one of them alone.
C15_InterleavedUpdates ==
  /\ \A k \in NodeKeys(db) : ContentAddressed(k, db[k])
  /\ \A put \in pending :
       put.key # Name => ContentAddressed(put.key, put.value)
  /\ BothUpdated =>
       tree.root \in {RootWith({procs[1].index, procs[2].index}, tree.depth),
                      RootWith({procs[1].index}, tree.depth),
                      RootWith({procs[2].index}, tree.depth)}

\* The lost update: both calls returned, every put has committed, and the
\* root in memory and in the metadata record is the root of caller 2's
\* update alone.
C15_Witness ==
  /\ BothUpdated /\ pending = {} /\ tree.depth = 2
  /\ tree.root = RootWith({procs[2].index}, tree.depth)
  /\ Get(db, Name) = <<tree.root, WriteUInt32LE(tree.depth)>>

\* Every node within `levels` levels under the digest has its entry in the
\* store.
RECURSIVE Backed(_, _, _)
Backed(store, node, levels) ==
  \/ levels = 0
  \/ /\ node \in DOMAIN store
     /\ Backed(store, Slice(store[node], 0, 32), levels - 1)
     /\ Backed(store, Slice(store[node], 32, 64), levels - 1)

\* C18 as stated: in every reachable state, the states between the commits
\* of issued puts included, the root in the persisted metadata record is
\* fully backed by the store: the node writes have committed before the
\* metadata write that references them.
C18_MetadataRootBacked ==
  Name \in DOMAIN db =>
    Backed(db, Slice(db[Name], 0, 32), ReadUInt32LE(db[Name], 32))

IsRead(e) == e.kind \in {"get", "getError"}

IsWrite(e) == e.kind \in {"put", "putError"}

\* The last access of the trace is a get that found no entry.
Missed(trace) ==
  /\ trace # <<>>
  /\ trace[Len(trace)].kind = "get"
  /\ trace[Len(trace)].value = NotFound

\* C19: within one updateElement every store read precedes every store
\* write, and a call that fails because a node entry is missing has issued
\* no store write and leaves the in-memory root and the metadata record as
\* they were.
C19_ReadsBeforeWrites ==
  [][(op'.name = "updateElement") =>
       /\ \A m, n \in 1..Len(op'.trace) :
            (IsWrite(op'.trace[m]) /\ IsRead(op'.trace[n])) => n < m
       /\ (~op'.ok /\ Missed(op'.trace)) =>
            /\ \A n \in 1..Len(op'.trace) : ~IsWrite(op'.trace[n])
            /\ tree' = tree
            /\ db' = db]_vars

\* An update of a depth-2 tree that finds the root's entry and misses the
\* entry of the node under it, whose put failed during construction.
C19_Witness ==
  /\ op.name = "updateElement" /\ ~op.ok /\ op.fault = 0
  /\ Missed(op.trace) /\ Len(op.trace) = 2 /\ tree.depth = 2
  /\ Name \in DOMAIN db /\ tree.root \in DOMAIN db

\* C20 as stated: a digest obtained from getRoot() or returned by
\* updateElement is not changed by any later updateElement on the same
\* instance.
C20_ObtainedRootStable ==
  kept.ref # 0 => heap[kept.ref] = kept.bytes

====
